---- MODULE Spec2Model ----
(***************************************************************************)
(* Model of the real-time data channel of the home-energy dashboard:       *)
(* the useWebSocket hook (socket lifecycle, heartbeat, reconnection with   *)
(* exponential backoff) as driven by React effects, browser WebSocket      *)
(* events and timers.                                                      *)
(*                                                                         *)
(* The hook's refs and state are the variables.  Every handler of the     *)
(* hook is an operator from a state record to a state record, so that     *)
(* handlers that call each other (resetConnection = disconnect; connect)  *)
(* compose as the code does.  An action applies one handler to the        *)
(* current state.                                                          *)
(*                                                                         *)
(* Time: the heartbeat interval and the pong timeout are clocks counted   *)
(* in units of TickMs; a due timer fires before time advances.  A         *)
(* reconnect timer carries its delay and may fire at any later moment     *)
(* (network events are not timed, so every order is possible).            *)
(***************************************************************************)
EXTENDS Integers, Sequences, FiniteSets, TLC

VARIABLES
    wsRef,                  \* wsRef.current: 0 = null, else a socket id
    sockets,                \* socket id -> readyState ("NONE" = no such object)
    reconnectTimeoutRef,    \* reconnectTimeoutRef.current: 0 = null, else a timer id
    reconnectTimers,        \* timer id -> TRUE while that setTimeout(connect, delay) is pending
    heartbeatIntervalRef,   \* heartbeatIntervalRef.current: -1 = null, else units until the next tick
    heartbeatTimeoutRef,    \* heartbeatTimeoutRef.current: 0 = null, else a timer id
    pongTimers,             \* timer id -> units until a pending pong timeout fires, -1 = not pending
    reconnectAttemptsRef,   \* reconnectAttemptsRef.current
    reconnectAttempts,      \* React state returned to the consumer
    isConnected,            \* React state returned to the consumer
    isMountedRef,           \* isMountedRef.current
    effect,                 \* the mount effect: "none" (not run yet), "active", "cleaned"
    pendingClose,           \* socket whose close event follows its error event in the same task, 0 = none
    out,                    \* what the last step did: sockets created/closed, messages sent, callbacks, timers set/cleared
    lastEvent,              \* the operation or event handled by the last step
    opened,                 \* history: an open event was handled and no close event has been handled since
    stopped,                \* history: disconnect() was called and neither resetConnection() nor a mount since
    exceeded,               \* history: onMaxRetriesExceeded calls since the last open, reset or mount (counted up to 2)
    settled,                \* environment: TRUE once the consumer stays mounted, calls nothing more, and connection attempts succeed
    readings,               \* Dashboard state: the summary rows of the last summary batch
    realtimeData,           \* Dashboard state: meter name -> latest realtime snapshot
    timeseriesData,         \* Dashboard state: meter name -> series of points, oldest first
    lastMessage,            \* the message handleWebSocketMessage handled last
    delivered,              \* number of messages handleWebSocketMessage has handled
    accessToken,            \* localStorage 'accessToken': 0 = absent, else the number of the token
    refreshToken,           \* localStorage 'refreshToken': 0 = absent, else the number of the token
    user,                   \* AuthProvider state: 0 = null, 1 = the signed-in user
    page,                   \* "loading" until AuthProvider's mount effect has run, then "ready"
    requests,               \* request id -> a call through the api client: st "none" (free), "sent"
                            \* (waiting for the reply), "refreshing" (the response interceptor waits
                            \* for the reply to POST /api/auth/token/refresh/); kind "login"
                            \* (login's POST), "user" (fetchUser's GET), "data" (any other caller);
                            \* retry = _retry; auth = token in the Authorization header, 0 = none;
                            \* refresh = token posted to the refresh endpoint
    issued,                 \* number of tokens the server has issued
    loggedOut               \* history: logout() has completed while no login() was waiting for its
                            \* reply, and login() has not been called since

vars == <<wsRef, sockets, reconnectTimeoutRef, reconnectTimers, heartbeatIntervalRef,
          heartbeatTimeoutRef, pongTimers, reconnectAttemptsRef, reconnectAttempts,
          isConnected, isMountedRef, effect, pendingClose, out, lastEvent,
          opened, stopped, exceeded, settled,
          readings, realtimeData, timeseriesData, lastMessage, delivered,
          accessToken, refreshToken, user, page, requests, issued, loggedOut>>

\* the state of the hook and of its environment
hookVars == <<wsRef, sockets, reconnectTimeoutRef, reconnectTimers, heartbeatIntervalRef,
              heartbeatTimeoutRef, pongTimers, reconnectAttemptsRef, reconnectAttempts,
              isConnected, isMountedRef, effect, pendingClose, out, lastEvent,
              opened, stopped, exceeded, settled>>

\* the state of the Dashboard component that consumes the hook's messages
dashVars == <<readings, realtimeData, timeseriesData, lastMessage, delivered>>

\* the state of AuthProvider, of the api client and of the token storage
authVars == <<accessToken, refreshToken, user, page, requests, issued, loggedOut>>

(***************************************************************************)
(* Program constants                                                       *)
(***************************************************************************)
HEARTBEAT_INTERVAL_MS == 25000
\* variant: a pong timeout longer than the ping interval
HEARTBEAT_TIMEOUT_MS_long == HEARTBEAT_INTERVAL_MS + 5000
HEARTBEAT_TIMEOUT_MS == 10000
BASE_RECONNECT_DELAY_MS == 1000
MAX_RECONNECT_DELAY_MS == 30000
MAX_RECONNECT_ATTEMPTS == 10
MAX_TIMESERIES_POINTS == 450

(***************************************************************************)
(* Bounds of the model                                                     *)
(***************************************************************************)
MaxSockets == 2      \* WebSocket objects that still have events to deliver, plus the current one
MaxTimers == 2       \* timer handles per kind (reconnect, pong timeout) alive at once
MaxMessages == 4     \* messages the Dashboard handles in one run of SpecDashboard
MaxDelivered == 2    \* messages the hook hands to the Dashboard in one run of SpecApp
MaxRequests == 2     \* calls through the api client in flight at once
MaxIssued == 3       \* tokens the server issues in one run of SpecAuth

RequestIds == 1..MaxRequests
NoRequest == [st |-> "none", kind |-> "", retry |-> FALSE, auth |-> 0, refresh |-> 0]

(***************************************************************************)
(* The stream reducer's pieces                                             *)
(***************************************************************************)
Meters == {"m1", "m2"}
\* the empty table {}
NoMeters == [m \in {} |-> <<>>]
\* a field that is present and not null
Has(data, f) == f \in DOMAIN data

\* Array.prototype.slice(-n): the last n elements, all of them when there are fewer
sliceLast_oldest(s, n) == IF Len(s) <= n THEN s ELSE SubSeq(s, 1, n)
sliceLast(s, n) == IF Len(s) <= n THEN s ELSE SubSeq(s, Len(s) - n + 1, Len(s))

\* one entry of timeseries_point against the series held for that meter
appendPoint_always(existing, point) ==
    sliceLast(Append(existing, point), MAX_TIMESERIES_POINTS)
appendPoint(existing, point) ==
    IF existing = <<>> \/ existing[Len(existing)].timestamp # point.timestamp
    THEN sliceLast(Append(existing, point), MAX_TIMESERIES_POINTS)
    ELSE existing

\* setTimeseriesData((prev) => ...) of a full_update
mergeTimeseriesPoints(prev, batch) ==
    [m \in DOMAIN prev \cup DOMAIN batch |->
        IF m \in DOMAIN batch
        THEN appendPoint(IF m \in DOMAIN prev THEN prev[m] ELSE <<>>, batch[m])
        ELSE prev[m]]

\* setRealtimeData((prev) => ({ ...prev, ...data.realtime }))
mergeRealtime_fieldwise(prev, batch) ==
    [m \in DOMAIN prev \cup DOMAIN batch |->
        IF m \in DOMAIN batch /\ m \in DOMAIN prev
        THEN [f \in DOMAIN prev[m] \cup DOMAIN batch[m] |->
                 IF f \in DOMAIN batch[m] THEN batch[m][f] ELSE prev[m][f]]
        ELSE IF m \in DOMAIN batch THEN batch[m] ELSE prev[m]]
mergeRealtime(prev, batch) ==
    [m \in DOMAIN prev \cup DOMAIN batch |-> IF m \in DOMAIN batch THEN batch[m] ELSE prev[m]]

\* setTimeseriesData((prev) => ({ ...prev, [data.meter_name]: data.data }))
setInitialTimeseries_extend(prev, name, series) ==
    [m \in DOMAIN prev \cup {name} |->
        IF m = name THEN (IF m \in DOMAIN prev THEN prev[m] ELSE <<>>) \o series ELSE prev[m]]
setInitialTimeseries(prev, name, series) ==
    [m \in DOMAIN prev \cup {name} |-> IF m = name THEN series ELSE prev[m]]

(***************************************************************************)
(* The hook's clocks, sockets and timers                                   *)
(***************************************************************************)
RECURSIVE GCD(_, _)
GCD(a, b) == IF b = 0 THEN a ELSE GCD(b, a % b)

\* granularity of the heartbeat clocks: the largest unit that divides both heartbeat periods
TickMs == GCD(HEARTBEAT_INTERVAL_MS, HEARTBEAT_TIMEOUT_MS)

SocketIds == 1..MaxSockets
TimerIds == 1..MaxTimers

InboundData == {"pong", "full_update", "initial_timeseries", "unknown", "malformed"}
OutboundMessages == {"request_update", "request_timeseries"}

Min(a, b) == IF a <= b THEN a ELSE b

RECURSIVE Pow2(_)
Pow2(n) == IF n = 0 THEN 1 ELSE 2 * Pow2(n - 1)

IntervalUnits == HEARTBEAT_INTERVAL_MS \div TickMs
TimeoutUnits == HEARTBEAT_TIMEOUT_MS \div TickMs

(***************************************************************************)
(* The state as one record, for the handlers to transform                  *)
(***************************************************************************)
Cur == [wsRef |-> wsRef, sockets |-> sockets,
        reconnectTimeoutRef |-> reconnectTimeoutRef, reconnectTimers |-> reconnectTimers,
        heartbeatIntervalRef |-> heartbeatIntervalRef,
        heartbeatTimeoutRef |-> heartbeatTimeoutRef, pongTimers |-> pongTimers,
        reconnectAttemptsRef |-> reconnectAttemptsRef, reconnectAttempts |-> reconnectAttempts,
        isConnected |-> isConnected, isMountedRef |-> isMountedRef,
        out |-> <<>>, ok |-> TRUE]

Emit(st, k, s, m, n) == [st EXCEPT !.out = Append(@, [k |-> k, s |-> s, m |-> m, n |-> n])]

\* new WebSocket(url): a fresh object in readyState CONNECTING
FreeSockets(st) == {s \in SocketIds : st.sockets[s] = "NONE"}
NewSocket(st) ==
    IF FreeSockets(st) = {} THEN [st EXCEPT !.ok = FALSE]
    ELSE LET s == CHOOSE x \in FreeSockets(st) : \A y \in FreeSockets(st) : x <= y
         IN Emit([st EXCEPT !.sockets[s] = "CONNECTING", !.wsRef = s], "new", s, "", 0)

\* WebSocket.close(): CONNECTING or OPEN becomes CLOSING, otherwise nothing
wsClose(st, s) ==
    IF st.sockets[s] \in {"CONNECTING", "OPEN"}
    THEN Emit([st EXCEPT !.sockets[s] = "CLOSING"], "close", s, "", 0)
    ELSE st

\* WebSocket.send(data) on an OPEN socket
wsSend(st, s, m) == Emit(st, "send", s, m, 0)

\* a timer handle that is neither pending nor held by the ref
FreeTimers(pending, ref) == {t \in TimerIds : t \notin pending /\ t # ref}
LeastFree(pending, ref) ==
    CHOOSE x \in FreeTimers(pending, ref) : \A y \in FreeTimers(pending, ref) : x <= y

PendingReconnect(st) == {t \in TimerIds : st.reconnectTimers[t]}
PendingPong(st) == {t \in TimerIds : st.pongTimers[t] # -1}

(***************************************************************************)
(* The hook's functions                                                    *)
(***************************************************************************)
\* clearTimeout(heartbeatTimeoutRef.current); heartbeatTimeoutRef.current = null
\* (n = 1 when the timer was still pending, 0 when it had fired already)
clearPongTimeout(st) ==
    Emit([st EXCEPT !.pongTimers[st.heartbeatTimeoutRef] = -1,
                    !.heartbeatTimeoutRef = 0],
         "clearTimeout", 0, "pong",
         IF st.pongTimers[st.heartbeatTimeoutRef] # -1 THEN 1 ELSE 0)

stopHeartbeat(st) ==
    LET s1 == IF st.heartbeatIntervalRef # -1
              THEN Emit([st EXCEPT !.heartbeatIntervalRef = -1], "clearInterval", 0, "ping", 0)
              ELSE st
    IN IF s1.heartbeatTimeoutRef # 0
       THEN clearPongTimeout(s1)
       ELSE s1

startHeartbeat(st) ==
    Emit([stopHeartbeat(st) EXCEPT !.heartbeatIntervalRef = IntervalUnits],
         "setInterval", 0, "ping", HEARTBEAT_INTERVAL_MS)

\* the callback of the heartbeat interval
heartbeatTick(st) ==
    IF st.wsRef # 0 /\ st.sockets[st.wsRef] = "OPEN"
    THEN LET s1 == wsSend(st, st.wsRef, "ping")
         IN IF FreeTimers(PendingPong(s1), s1.heartbeatTimeoutRef) = {}
            THEN [s1 EXCEPT !.ok = FALSE]
            ELSE LET t == LeastFree(PendingPong(s1), s1.heartbeatTimeoutRef)
                 IN Emit([s1 EXCEPT !.pongTimers[t] = TimeoutUnits,
                                    !.heartbeatTimeoutRef = t],
                         "setTimeout", 0, "pong", HEARTBEAT_TIMEOUT_MS)
    ELSE st

\* variant: the pong timeout only logs
heartbeatTimeout_logOnly(st) == st

\* the callback of the pong timeout
heartbeatTimeout(st) ==
    IF st.wsRef # 0 THEN wsClose(st, st.wsRef) ELSE st

\* variant: the backoff without its cap
getReconnectDelay_uncapped(st) ==
    BASE_RECONNECT_DELAY_MS * Pow2(st.reconnectAttemptsRef)

getReconnectDelay(st) ==
    Min(BASE_RECONNECT_DELAY_MS * Pow2(st.reconnectAttemptsRef), MAX_RECONNECT_DELAY_MS)

\* variant: connect without the guard against duplicate connections
connect_unguarded(st) ==
    IF ~st.isMountedRef THEN st
    ELSE NewSocket(st)

connect(st) ==
    IF ~st.isMountedRef THEN st
    ELSE IF st.wsRef # 0 /\ st.sockets[st.wsRef] \in {"CONNECTING", "OPEN"} THEN st
    ELSE NewSocket(st)

\* variant: onopen that keeps the reconnect counter
onopen_keepAttempts(st) ==
    IF ~st.isMountedRef THEN st
    ELSE Emit(startHeartbeat([st EXCEPT !.isConnected = TRUE]), "onConnect", 0, "", 0)

onopen(st) ==
    IF ~st.isMountedRef THEN st
    ELSE LET s1 == [st EXCEPT !.isConnected = TRUE,
                              !.reconnectAttemptsRef = 0,
                              !.reconnectAttempts = 0]
         IN Emit(startHeartbeat(s1), "onConnect", 0, "", 0)

\* variant: onmessage that clears the pong timeout and then forwards the pong as well
onmessage_dataClearsPong(st, data) ==
    IF ~st.isMountedRef THEN st
    ELSE IF data = "malformed" THEN st
    ELSE LET s1 == IF st.heartbeatTimeoutRef # 0 THEN clearPongTimeout(st) ELSE st
         IN IF data = "pong" THEN s1 ELSE Emit(s1, "onMessage", 0, data, 0)

onmessage_forwardPong(st, data) ==
    IF ~st.isMountedRef THEN st
    ELSE IF data = "malformed" THEN st
    ELSE Emit(IF data = "pong" /\ st.heartbeatTimeoutRef # 0 THEN clearPongTimeout(st) ELSE st,
              "onMessage", 0, data, 0)

onmessage_malformedAsPong(st, data) ==
    IF ~st.isMountedRef THEN st
    ELSE IF data \in {"pong", "malformed"}
         THEN IF st.heartbeatTimeoutRef # 0 THEN clearPongTimeout(st) ELSE st
    ELSE Emit(st, "onMessage", 0, data, 0)
onmessage(st, data) ==
    IF ~st.isMountedRef THEN st
    ELSE IF data = "malformed" THEN st          \* JSON.parse throws, caught and logged
    ELSE IF data = "pong"
         THEN IF st.heartbeatTimeoutRef # 0
              THEN clearPongTimeout(st)
              ELSE st
    ELSE Emit(st, "onMessage", 0, data, 0)

onerror_asClose(st) ==
    IF ~st.isMountedRef THEN st
    ELSE Emit(stopHeartbeat([st EXCEPT !.isConnected = FALSE]), "onError", 0, "", 0)
onerror(st) ==
    IF ~st.isMountedRef THEN st
    ELSE Emit([st EXCEPT !.isConnected = FALSE], "onError", 0, "", 0)

\* arm the reconnect timer: reconnectTimeoutRef.current = setTimeout(connect, delay)
scheduleReconnect(st, delay) ==
    IF FreeTimers(PendingReconnect(st), st.reconnectTimeoutRef) = {}
    THEN [st EXCEPT !.ok = FALSE]
    ELSE LET t == LeastFree(PendingReconnect(st), st.reconnectTimeoutRef)
         IN Emit([st EXCEPT !.reconnectTimers[t] = TRUE, !.reconnectTimeoutRef = t],
                 "setTimeout", 0, "connect", delay)

\* onclose after its mounted check
oncloseBody_offByOne(st) ==
    LET s1 == Emit(stopHeartbeat([st EXCEPT !.isConnected = FALSE]),
                   "onDisconnect", 0, "", 0)
    IN IF s1.reconnectAttemptsRef > MAX_RECONNECT_ATTEMPTS
       THEN Emit(s1, "onMaxRetriesExceeded", 0, "", 0)
       ELSE LET delay == getReconnectDelay(s1)
                s2 == [s1 EXCEPT !.reconnectAttemptsRef = @ + 1,
                                 !.reconnectAttempts = s1.reconnectAttemptsRef + 1]
            IN scheduleReconnect(s2, delay)
oncloseBody(st) ==
    LET s1 == Emit(stopHeartbeat([st EXCEPT !.isConnected = FALSE]),
                   "onDisconnect", 0, "", 0)
    IN IF s1.reconnectAttemptsRef >= MAX_RECONNECT_ATTEMPTS
       THEN Emit(s1, "onMaxRetriesExceeded", 0, "", 0)
       ELSE LET delay == getReconnectDelay(s1)
                s2 == [s1 EXCEPT !.reconnectAttemptsRef = @ + 1,
                                 !.reconnectAttempts = s1.reconnectAttemptsRef + 1]
            IN scheduleReconnect(s2, delay)

\* variant: onclose without the mounted check
onclose_unguarded(st) == oncloseBody(st)

\* variant: onclose that computes the delay after incrementing the counter
onclose_delayAfterIncrement(st) ==
    IF ~st.isMountedRef THEN st
    ELSE LET s1 == Emit(stopHeartbeat([st EXCEPT !.isConnected = FALSE]),
                        "onDisconnect", 0, "", 0)
         IN IF s1.reconnectAttemptsRef >= MAX_RECONNECT_ATTEMPTS
            THEN Emit(s1, "onMaxRetriesExceeded", 0, "", 0)
            ELSE LET s2 == [s1 EXCEPT !.reconnectAttemptsRef = @ + 1,
                                      !.reconnectAttempts = s1.reconnectAttemptsRef + 1]
                 IN scheduleReconnect(s2, getReconnectDelay(s2))

onclose(st) ==
    IF ~st.isMountedRef THEN st ELSE oncloseBody(st)

disconnect(st) ==
    LET s1 == stopHeartbeat(st)
        s2 == IF s1.reconnectTimeoutRef # 0
              THEN Emit([s1 EXCEPT !.reconnectTimers[s1.reconnectTimeoutRef] = FALSE,
                                   !.reconnectTimeoutRef = 0],
                        "clearTimeout", 0, "connect",
                        IF s1.reconnectTimers[s1.reconnectTimeoutRef] THEN 1 ELSE 0)
              ELSE s1
    IN IF s2.wsRef # 0
       THEN [wsClose(s2, s2.wsRef) EXCEPT !.wsRef = 0]
       ELSE s2

send_unguarded(st, message) ==
    IF st.wsRef # 0
    THEN wsSend(st, st.wsRef, message)
    ELSE st

send(st, message) ==
    IF st.wsRef # 0 /\ st.sockets[st.wsRef] = "OPEN"
    THEN wsSend(st, st.wsRef, message)
    ELSE st

resetConnection(st) ==
    IF ~st.isMountedRef THEN st
    ELSE connect(disconnect([st EXCEPT !.reconnectAttemptsRef = 0,
                                       !.reconnectAttempts = 0]))

\* the mount effect and its cleanup
mountEffect(st) == connect([st EXCEPT !.isMountedRef = TRUE])
unmountEffect(st) == disconnect([st EXCEPT !.isMountedRef = FALSE])

(***************************************************************************)
(* Steps                                                                   *)
(***************************************************************************)
\* a CLOSED socket that nothing refers to has no event left to deliver
Collect(st, keep) ==
    [st EXCEPT !.sockets = [s \in SocketIds |->
         IF st.sockets[s] = "CLOSED" /\ s # st.wsRef /\ s # keep THEN "NONE" ELSE st.sockets[s]]]

\* the step recorded in st.out did something of kind k
Did(st, k) == \E i \in 1..Len(st.out) : st.out[i].k = k

Ev(e, s, d) == [e |-> e, s |-> s, d |-> d]

\* the hook's refs and state take the values the handler returned
ApplyHook(new, pc, ev) ==
    \E st \in {Collect(new, pc)} :
    /\ st.ok
    /\ wsRef' = st.wsRef
    /\ sockets' = st.sockets
    /\ reconnectTimeoutRef' = st.reconnectTimeoutRef
    /\ reconnectTimers' = st.reconnectTimers
    /\ heartbeatIntervalRef' = st.heartbeatIntervalRef
    /\ heartbeatTimeoutRef' = st.heartbeatTimeoutRef
    /\ pongTimers' = st.pongTimers
    /\ reconnectAttemptsRef' = st.reconnectAttemptsRef
    /\ reconnectAttempts' = st.reconnectAttempts
    /\ isConnected' = st.isConnected
    /\ isMountedRef' = st.isMountedRef
    /\ out' = st.out
    /\ pendingClose' = pc
    /\ lastEvent' = ev
    /\ opened' = IF Did(st, "onConnect") THEN TRUE
                 ELSE IF Did(st, "onDisconnect") THEN FALSE
                 ELSE opened
    /\ stopped' = IF ev.e = "disconnect" THEN TRUE
                  ELSE IF ev.e \in {"resetConnection", "mount", "unmount"} THEN FALSE
                  ELSE stopped
    /\ exceeded' = IF ev.e \in {"resetConnection", "mount"} \/ Did(st, "onConnect") THEN 0
                   ELSE IF Did(st, "onMaxRetriesExceeded") THEN Min(exceeded + 1, 2)
                   ELSE exceeded
    /\ settled' = settled
    /\ UNCHANGED authVars

\* a step of the hook that does not call the Dashboard
Apply_closeClearsTables(new, pc, ev) ==
    /\ ApplyHook(new, pc, ev)
    /\ IF ev.e = "close"
       THEN /\ readings' = <<>>
            /\ realtimeData' = NoMeters
            /\ timeseriesData' = NoMeters
            /\ UNCHANGED <<lastMessage, delivered>>
       ELSE UNCHANGED dashVars
Apply(new, pc, ev) == ApplyHook(new, pc, ev) /\ UNCHANGED dashVars

Idle == pendingClose = 0

Mount ==
    /\ Idle /\ effect # "active"
    /\ effect' = "active"
    /\ Apply(mountEffect(Cur), 0, Ev("mount", 0, ""))

Unmount ==
    /\ Idle /\ effect = "active"
    /\ effect' = "cleaned"
    /\ Apply(unmountEffect(Cur), 0, Ev("unmount", 0, ""))

Stop ==
    /\ Idle /\ effect = "active"
    /\ Apply(disconnect(Cur), 0, Ev("disconnect", 0, ""))
    /\ UNCHANGED effect

Reset ==
    /\ Idle /\ effect = "active"
    /\ Apply(resetConnection(Cur), 0, Ev("resetConnection", 0, ""))
    /\ UNCHANGED effect

Send ==
    /\ Idle /\ effect = "active"
    /\ \E m \in OutboundMessages : Apply(send(Cur, m), 0, Ev("send", 0, m))
    /\ UNCHANGED effect

SocketOpen ==
    /\ Idle
    /\ \E s \in SocketIds :
         /\ sockets[s] = "CONNECTING"
         /\ Apply(onopen([Cur EXCEPT !.sockets[s] = "OPEN"]), 0, Ev("open", s, ""))
    /\ UNCHANGED effect

SocketMessage ==
    /\ Idle
    /\ \E s \in SocketIds, d \in InboundData :
         /\ sockets[s] = "OPEN"
         /\ Apply(onmessage(Cur, d), 0, Ev("message", s, d))
    /\ UNCHANGED effect

\* the connection failed: readyState CLOSED, error event, then (same task) close event
SocketError ==
    /\ Idle
    /\ \E s \in SocketIds :
         /\ sockets[s] \in {"CONNECTING", "OPEN", "CLOSING"}
         /\ Apply(onerror([Cur EXCEPT !.sockets[s] = "CLOSED"]), s, Ev("error", s, ""))
    /\ UNCHANGED effect

SocketClose ==
    /\ \E s \in SocketIds :
         /\ \/ pendingClose = s
            \/ Idle /\ sockets[s] \in {"CONNECTING", "OPEN", "CLOSING"}
         /\ Apply(onclose([Cur EXCEPT !.sockets[s] = "CLOSED"]), 0, Ev("close", s, ""))
    /\ UNCHANGED effect

ReconnectFire ==
    /\ Idle
    /\ \E t \in TimerIds :
         /\ reconnectTimers[t]
         /\ Apply(connect([Cur EXCEPT !.reconnectTimers[t] = FALSE]), 0, Ev("reconnectTimer", t, ""))
    /\ UNCHANGED effect

HeartbeatIntervalFire ==
    /\ Idle
    /\ heartbeatIntervalRef = 0
    /\ Apply(heartbeatTick([Cur EXCEPT !.heartbeatIntervalRef = IntervalUnits]), 0,
             Ev("heartbeatInterval", 0, ""))
    /\ UNCHANGED effect

PongTimeoutFire ==
    /\ Idle
    /\ \E t \in TimerIds :
         /\ pongTimers[t] = 0
         /\ Apply(heartbeatTimeout([Cur EXCEPT !.pongTimers[t] = -1]), 0, Ev("pongTimeout", t, ""))
    /\ UNCHANGED effect

\* TickMs of time pass; no timer is overdue
Tick ==
    /\ Idle
    /\ heartbeatIntervalRef # 0
    /\ \A t \in TimerIds : pongTimers[t] # 0
    /\ heartbeatIntervalRef > 0 \/ \E t \in TimerIds : pongTimers[t] > 0
    /\ Apply([Cur EXCEPT !.heartbeatIntervalRef = IF @ > 0 THEN @ - 1 ELSE @,
                         !.pongTimers = [t \in TimerIds |->
                              IF pongTimers[t] > 0 THEN pongTimers[t] - 1 ELSE pongTimers[t]]],
             0, Ev("tick", 0, ""))
    /\ UNCHANGED effect

Init ==
    /\ wsRef = 0
    /\ sockets = [s \in SocketIds |-> "NONE"]
    /\ reconnectTimeoutRef = 0
    /\ reconnectTimers = [t \in TimerIds |-> FALSE]
    /\ heartbeatIntervalRef = -1
    /\ heartbeatTimeoutRef = 0
    /\ pongTimers = [t \in TimerIds |-> -1]
    /\ reconnectAttemptsRef = 0
    /\ reconnectAttempts = 0
    /\ isConnected = FALSE
    /\ isMountedRef = TRUE
    /\ effect = "none"
    /\ pendingClose = 0
    /\ out = <<>>
    /\ lastEvent = Ev("init", 0, "")
    /\ opened = FALSE
    /\ stopped = FALSE
    /\ exceeded = 0
    /\ settled = FALSE
    /\ readings = <<>>
    /\ realtimeData = NoMeters
    /\ timeseriesData = NoMeters
    /\ lastMessage = [type |-> "none"]
    /\ delivered = 0
    /\ accessToken = 0
    /\ refreshToken = 0
    /\ user = 0
    /\ page = "loading"
    /\ requests = [r \in 1..MaxRequests |-> NoRequest]
    /\ issued = 0
    /\ loggedOut = FALSE

Next ==
    \/ Mount
    \/ Unmount
    \/ Stop
    \/ Reset
    \/ Send
    \/ SocketOpen
    \/ SocketMessage
    \/ SocketError
    \/ SocketClose
    \/ ReconnectFire
    \/ HeartbeatIntervalFire
    \/ PongTimeoutFire
    \/ Tick

Spec == Init /\ [][Next]_vars

(***************************************************************************)
(* The hook in a settling environment.  The consumer mounts, stays mounted *)
(* and never calls disconnect().  Up to some moment it may call            *)
(* resetConnection() and connection attempts may fail.  From that moment   *)
(* on (settled) it calls nothing but send(), and every connection attempt  *)
(* succeeds: a Connecting transport neither fails nor closes.  Established *)
(* transports may still fail or be closed by the server.                   *)
(*                                                                         *)
(* Fairness.  The browser runs a timer callback once its delay has         *)
(* elapsed and time does not stop (ReconnectFire, HeartbeatIntervalFire,   *)
(* PongTimeoutFire, Tick); the close event follows the error event in the  *)
(* same task and a Closing transport gets its close event (ClosingEnds);   *)
(* once attempts succeed a Connecting transport opens (SocketOpen).        *)
(***************************************************************************)
Settle ==
    /\ Idle /\ effect = "active" /\ isMountedRef
    /\ ~settled
    /\ settled' = TRUE
    /\ UNCHANGED <<wsRef, sockets, reconnectTimeoutRef, reconnectTimers, heartbeatIntervalRef,
                   heartbeatTimeoutRef, pongTimers, reconnectAttemptsRef, reconnectAttempts,
                   isConnected, isMountedRef, effect, pendingClose, out, lastEvent,
                   opened, stopped, exceeded>>
    /\ UNCHANGED dashVars
    /\ UNCHANGED authVars

\* the transport the last event came from had been established (was not Connecting)
FromEstablished == sockets[lastEvent'.s] # "CONNECTING"

\* the close event that must come: after an error event, or on a Closing transport
ClosingEnds ==
    /\ SocketClose
    /\ pendingClose # 0 \/ sockets[lastEvent'.s] = "CLOSING"

NextSettling ==
    \/ Mount
    \/ ~settled /\ Reset
    \/ Settle
    \/ Send
    \/ SocketOpen
    \/ SocketMessage
    \/ SocketError /\ (settled => FromEstablished)
    \/ SocketClose /\ (settled => FromEstablished)
    \/ ReconnectFire
    \/ HeartbeatIntervalFire
    \/ PongTimeoutFire
    \/ Tick

Fairness ==
    /\ WF_vars(ReconnectFire)
    /\ WF_vars(HeartbeatIntervalFire)
    /\ WF_vars(PongTimeoutFire)
    /\ WF_vars(Tick)
    /\ WF_vars(ClosingEnds)
    /\ WF_vars(settled /\ SocketOpen)

SpecSettling == Init /\ [][NextSettling]_vars /\ Fairness

(***************************************************************************)
(* The Dashboard component: the stream reducer handleWebSocketMessage that *)
(* the hook calls as onMessage.  Spec and SpecSettling model the hook      *)
(* against any consumer (an onMessage call is an entry of out);            *)
(* SpecDashboard models the consumer against any stream of messages.       *)
(*                                                                         *)
(* A table (Record<string, ...>) is a function whose domain is the set of  *)
(* meter names it has a key for.  An optional field of a message that is   *)
(* absent (or null) is a field the record does not have.  Timestamps are   *)
(* numbers in the order of the instants they denote.                       *)
(***************************************************************************)
handleWebSocketMessage_keepRows(tb, data) ==
    IF data.type = "full_update"
    THEN [readings |-> IF Has(data, "summary") THEN tb.readings \o data.summary ELSE tb.readings,
          realtimeData |-> IF Has(data, "realtime")
                           THEN mergeRealtime(tb.realtimeData, data.realtime)
                           ELSE tb.realtimeData,
          timeseriesData |-> IF Has(data, "timeseries_point")
                             THEN mergeTimeseriesPoints(tb.timeseriesData, data.timeseries_point)
                             ELSE tb.timeseriesData]
    ELSE IF data.type = "initial_timeseries"
    THEN IF Has(data, "meter_name") /\ data.meter_name # "" /\ Has(data, "data")
         THEN [tb EXCEPT !.timeseriesData = setInitialTimeseries(@, data.meter_name, data.data)]
         ELSE tb
    ELSE tb
handleWebSocketMessage_defaultSummary(tb, data) ==
    IF data.type = "full_update"
    THEN [readings |-> IF Has(data, "summary") THEN data.summary ELSE <<>>,
          realtimeData |-> IF Has(data, "realtime")
                           THEN mergeRealtime(tb.realtimeData, data.realtime)
                           ELSE tb.realtimeData,
          timeseriesData |-> IF Has(data, "timeseries_point")
                             THEN mergeTimeseriesPoints(tb.timeseriesData, data.timeseries_point)
                             ELSE tb.timeseriesData]
    ELSE IF data.type = "initial_timeseries"
    THEN IF Has(data, "meter_name") /\ data.meter_name # "" /\ Has(data, "data")
         THEN [tb EXCEPT !.timeseriesData = setInitialTimeseries(@, data.meter_name, data.data)]
         ELSE tb
    ELSE tb
handleWebSocketMessage(tb, data) ==
    IF data.type = "full_update"
    THEN [readings |-> IF Has(data, "summary") THEN data.summary ELSE tb.readings,
          realtimeData |-> IF Has(data, "realtime")
                           THEN mergeRealtime(tb.realtimeData, data.realtime)
                           ELSE tb.realtimeData,
          timeseriesData |-> IF Has(data, "timeseries_point")
                             THEN mergeTimeseriesPoints(tb.timeseriesData, data.timeseries_point)
                             ELSE tb.timeseriesData]
    ELSE IF data.type = "initial_timeseries"
    THEN IF Has(data, "meter_name") /\ data.meter_name # "" /\ Has(data, "data")
         THEN [tb EXCEPT !.timeseriesData = setInitialTimeseries(@, data.meter_name, data.data)]
         ELSE tb
    ELSE tb

\* the three tables of the Dashboard
Tables == [readings |-> readings, realtimeData |-> realtimeData, timeseriesData |-> timeseriesData]

\* the server's messages: what it may send next, given what the Dashboard holds
Point(t, v) == [timestamp |-> t, voltage |-> v]
History(n) == [i \in 1..n |-> Point(i, 0)]
LastTimestamp(m) ==
    IF m \in DOMAIN timeseriesData /\ timeseriesData[m] # <<>>
    THEN timeseriesData[m][Len(timeseriesData[m])].timestamp
    ELSE 0
\* a newer point, a point with the last timestamp again, an older point
PointChoices(m) ==
    {Point(LastTimestamp(m) + 1, 0)}
    \cup (IF LastTimestamp(m) > 0 THEN {Point(LastTimestamp(m), 1)} ELSE {})
    \cup (IF LastTimestamp(m) > 1 THEN {Point(LastTimestamp(m) - 1, 0)} ELSE {})
PointBatches ==
    {[m \in {"m1"} |-> p] : p \in PointChoices("m1")}
    \cup {[m \in {"m2"} |-> p] : p \in PointChoices("m2")}
    \cup {[m \in Meters |-> Point(LastTimestamp(m) + 1, 0)]}
Snapshots == {[voltage |-> 230, power_demand |-> 7], [voltage |-> 231]}
RealtimeBatches ==
    {[m \in {"m1"} |-> r] : r \in Snapshots}
    \cup {[m \in {"m2"} |-> [voltage |-> 231]]}
    \cup {[m \in Meters |-> [voltage |-> 231]]}
Summaries ==
    {<<[meter_name |-> "m1", voltage |-> 230]>>,
     <<[meter_name |-> "m1", voltage |-> 231], [meter_name |-> "m2", voltage |-> 229]>>}
FullUpdates ==
    {[type |-> "full_update"]}
    \cup {[type |-> "full_update", summary |-> s] : s \in Summaries}
    \cup {[type |-> "full_update", realtime |-> r] : r \in RealtimeBatches}
    \cup {[type |-> "full_update", timeseries_point |-> b] : b \in PointBatches}
    \cup {[type |-> "full_update", summary |-> <<[meter_name |-> "m1", voltage |-> 230]>>,
           realtime |-> [m \in {"m1"} |-> [voltage |-> 231]],
           timeseries_point |-> [m \in {"m1"} |-> Point(LastTimestamp("m1") + 1, 0)]]}
InitialData ==
    {<<>>, History(2), History(MAX_TIMESERIES_POINTS - 1), History(MAX_TIMESERIES_POINTS + 1)}
InitialTimeseries ==
    {[type |-> "initial_timeseries", meter_name |-> "m1", data |-> d] : d \in InitialData}
    \cup {[type |-> "initial_timeseries", meter_name |-> "m2", data |-> History(2)],
          [type |-> "initial_timeseries", meter_name |-> "", data |-> History(2)],
          [type |-> "initial_timeseries", meter_name |-> "m1"]}
OtherMessages == {[type |-> "unknown"]}

\* onMessage(data): the Dashboard's setters take the tables the reducer returns
Handle(data) ==
    /\ delivered < MaxMessages
    /\ \E tb \in {handleWebSocketMessage(Tables, data)} :
         /\ readings' = tb.readings
         /\ realtimeData' = tb.realtimeData
         /\ timeseriesData' = tb.timeseriesData
    /\ lastMessage' = data
    /\ delivered' = delivered + 1

\* a message handled by the Dashboard, whatever the hook does
Receive(data) == Handle(data) /\ UNCHANGED hookVars /\ UNCHANGED authVars

ReceiveFullUpdate == \E data \in FullUpdates : Receive(data)
ReceiveInitialTimeseries == \E data \in InitialTimeseries : Receive(data)
ReceiveOther == \E data \in OtherMessages : Receive(data)

NextDashboard ==
    \/ ReceiveFullUpdate
    \/ ReceiveInitialTimeseries
    \/ ReceiveOther

SpecDashboard == Init /\ [][NextDashboard]_vars

(***************************************************************************)
(* The Dashboard mounted on the hook: useWebSocket({ onMessage:            *)
(* handleWebSocketMessage, ... }).  A frame that arrives on an Open        *)
(* transport runs the hook's onmessage; when that calls onMessage, the     *)
(* reducer handles the message in the same step.  Every other step is a    *)
(* step of the hook.                                                       *)
(***************************************************************************)
AppMessages ==
    {[type |-> "full_update", summary |-> <<[meter_name |-> "m1", voltage |-> 230]>>,
      realtime |-> [m \in {"m1"} |-> [voltage |-> 231]],
      timeseries_point |-> [m \in {"m1"} |-> Point(LastTimestamp("m1") + 1, 0)]],
     [type |-> "initial_timeseries", meter_name |-> "m2", data |-> History(2)]}
    \cup OtherMessages

\* a frame the hook handles itself or drops
ControlFrame == SocketMessage /\ lastEvent'.d \in {"pong", "malformed"}

\* an application message arrives: onmessage, then onMessageRef.current(data)
DeliverApp ==
    /\ Idle
    /\ \E s \in SocketIds, data \in AppMessages :
         /\ sockets[s] = "OPEN"
         /\ ApplyHook(onmessage(Cur, data.type), 0, Ev("message", s, data.type))
         /\ IF \E i \in 1..Len(out') : out'[i].k = "onMessage"
            THEN delivered < MaxDelivered /\ Handle(data)
            ELSE UNCHANGED dashVars
    /\ UNCHANGED effect

NextApp ==
    \/ Mount
    \/ Unmount
    \/ Stop
    \/ Reset
    \/ Send
    \/ SocketOpen
    \/ ControlFrame
    \/ DeliverApp
    \/ SocketError
    \/ SocketClose
    \/ ReconnectFire
    \/ HeartbeatIntervalFire
    \/ PongTimeoutFire
    \/ Tick

SpecApp == Init /\ [][NextApp]_vars

(***************************************************************************)
(* AuthProvider, the api client and the token storage                      *)
(*                                                                         *)
(* SpecAuth runs login(), logout(), fetchUser() and calls through the api  *)
(* client with its two interceptors against a server that may answer any   *)
(* request with 200, with 401 or with another failure, in any order.       *)
(* Assigning window.location.href loads the login page: the calls in       *)
(* flight and the React state of the page are gone, localStorage stays.    *)
(***************************************************************************)
FreeRequests == {r \in RequestIds : requests[r].st = "none"}
LoginInFlight == \E r \in RequestIds : requests[r].st # "none" /\ requests[r].kind = "login"

\* the request interceptor: the call leaves with the stored access token
requestInterceptor(kind) ==
    [st |-> "sent", kind |-> kind, retry |-> FALSE, auth |-> accessToken, refresh |-> 0]

\* the caller's catch block, after the api call r was rejected; status401
\* says whether the error carries a 401 response
caught(r, status401) ==
    IF requests[r].kind = "user"
    THEN /\ user' = 0
         /\ IF status401
            THEN accessToken' = 0 /\ refreshToken' = 0
            ELSE UNCHANGED <<accessToken, refreshToken>>
    ELSE UNCHANGED <<user, accessToken, refreshToken>>

\* AuthProvider's mount effect: fetchUser()
MountAuth ==
    /\ page = "loading"
    /\ page' = "ready"
    /\ IF accessToken = 0
       THEN UNCHANGED requests
       ELSE requests' = [requests EXCEPT ![1] = requestInterceptor("user")]
    /\ UNCHANGED <<accessToken, refreshToken, user, issued, loggedOut>>
    /\ UNCHANGED <<hookVars, dashVars>>

\* login(username, password) up to its await
Login ==
    /\ page = "ready"
    /\ \E r \in FreeRequests :
         requests' = [requests EXCEPT ![r] = requestInterceptor("login")]
    /\ loggedOut' = FALSE
    /\ UNCHANGED <<accessToken, refreshToken, user, page, issued>>
    /\ UNCHANGED <<hookVars, dashVars>>

logout ==
    /\ accessToken' = 0
    /\ refreshToken' = 0
    /\ user' = 0

Logout ==
    /\ page = "ready"
    /\ logout
    /\ loggedOut' = ~LoginInFlight
    /\ UNCHANGED <<page, requests, issued>>
    /\ UNCHANGED <<hookVars, dashVars>>

\* a component calls api.get
ApiGet ==
    /\ page = "ready"
    /\ \E r \in FreeRequests :
         requests' = [requests EXCEPT ![r] = requestInterceptor("data")]
    /\ UNCHANGED <<accessToken, refreshToken, user, page, issued, loggedOut>>
    /\ UNCHANGED <<hookVars, dashVars>>

\* the server answers 200: login() stores the token pair and calls
\* fetchUser(), fetchUser() sets the user
Response200 ==
    \E r \in RequestIds :
      /\ requests[r].st = "sent"
      /\ IF requests[r].kind = "login"
         THEN /\ issued < MaxIssued
              /\ issued' = issued + 1
              /\ accessToken' = issued + 1
              /\ refreshToken' = issued + 1
              /\ requests' = [requests EXCEPT ![r] =
                     [requestInterceptor("user") EXCEPT !.auth = issued + 1]]
              /\ UNCHANGED user
         ELSE /\ requests' = [requests EXCEPT ![r] = NoRequest]
              /\ user' = IF requests[r].kind = "user" THEN 1 ELSE user
              /\ UNCHANGED <<accessToken, refreshToken, issued>>
      /\ UNCHANGED <<page, loggedOut>>
      /\ UNCHANGED <<hookVars, dashVars>>

\* the server answers 401 and the response interceptor runs
Response401 ==
    \E r \in RequestIds :
      /\ requests[r].st = "sent"
      /\ IF ~requests[r].retry /\ refreshToken # 0
         THEN /\ requests' = [requests EXCEPT ![r] =
                     [@ EXCEPT !.st = "refreshing", !.retry = TRUE, !.refresh = refreshToken]]
              /\ UNCHANGED <<accessToken, refreshToken, user, page>>
         ELSE IF ~requests[r].retry
         THEN /\ caught(r, TRUE)
              /\ page' = "loading"
              /\ requests' = [q \in RequestIds |-> NoRequest]
         ELSE /\ caught(r, TRUE)
              /\ requests' = [requests EXCEPT ![r] = NoRequest]
              /\ UNCHANGED page
      /\ UNCHANGED <<issued, loggedOut>>
      /\ UNCHANGED <<hookVars, dashVars>>

\* the call fails without a 401 (another status, no response)
ResponseError ==
    \E r \in RequestIds :
      /\ requests[r].st = "sent"
      /\ caught(r, FALSE)
      /\ requests' = [requests EXCEPT ![r] = NoRequest]
      /\ UNCHANGED <<page, issued, loggedOut>>
      /\ UNCHANGED <<hookVars, dashVars>>

\* the refresh endpoint answers with a new access token: the interceptor
\* stores it and sends the original request again
RefreshResponse ==
    \E r \in RequestIds :
      /\ requests[r].st = "refreshing"
      /\ issued < MaxIssued
      /\ issued' = issued + 1
      /\ accessToken' = issued + 1
      /\ requests' = [requests EXCEPT ![r] =
             [@ EXCEPT !.st = "sent", !.auth = issued + 1, !.refresh = 0]]
      /\ UNCHANGED <<refreshToken, user, page, loggedOut>>
      /\ UNCHANGED <<hookVars, dashVars>>

\* the refresh fails: the interceptor clears both tokens and loads /login
RefreshFailed ==
    \E r \in RequestIds :
      /\ requests[r].st = "refreshing"
      /\ accessToken' = 0
      /\ refreshToken' = 0
      /\ user' = IF requests[r].kind = "user" THEN 0 ELSE user
      /\ page' = "loading"
      /\ requests' = [q \in RequestIds |-> NoRequest]
      /\ UNCHANGED <<issued, loggedOut>>
      /\ UNCHANGED <<hookVars, dashVars>>

NextAuth ==
    \/ MountAuth
    \/ Login
    \/ Logout
    \/ ApiGet
    \/ Response200
    \/ Response401
    \/ ResponseError
    \/ RefreshResponse
    \/ RefreshFailed

SpecAuth == Init /\ [][NextAuth]_vars

(***************************************************************************)
(* Vocabulary of the properties                                            *)
(***************************************************************************)
\* transports in the Connecting or Open state
Live == {s \in SocketIds : sockets[s] \in {"CONNECTING", "OPEN"}}

\* the last step did something of kind k (about m)
Done(k) == \E i \in 1..Len(out) : out[i].k = k
DoneAbout(k, m) == \E i \in 1..Len(out) : out[i].k = k /\ out[i].m = m
Times(k) == Cardinality({i \in 1..Len(out) : out[i].k = k})

ReconnectPending == {t \in TimerIds : reconnectTimers[t]}
PongPending == {t \in TimerIds : pongTimers[t] # -1}

\* what counts as transport activity or as a notification of the consumer
Callbacks == {"onMessage", "onConnect", "onDisconnect", "onError", "onMaxRetriesExceeded"}
Activity == {"new", "send"} \cup Callbacks

\* min(1000 * 2^attempt, 30000) for attempt = 0..9, written out
DelayTable == <<1000, 2000, 4000, 8000, 16000, 30000, 30000, 30000, 30000, 30000>>

\* the delay of the reconnect scheduled by the last step (0 when none was)
ScheduledDelay ==
    IF DoneAbout("setTimeout", "connect")
    THEN out[CHOOSE i \in 1..Len(out) : out[i].k = "setTimeout" /\ out[i].m = "connect"].n
    ELSE 0

\* the effect of a close event handled with attempt < MAX_RECONNECT_ATTEMPTS, as a step
ReconnectScheduled ==
    /\ ~isConnected'
    /\ heartbeatIntervalRef' = -1 /\ heartbeatTimeoutRef' = 0
    /\ {t \in TimerIds : pongTimers'[t] # -1} = {}
    /\ Done("onDisconnect")' /\ Times("onDisconnect")' = 1
    /\ ~Done("onMaxRetriesExceeded")'
    /\ Times("setTimeout")' = 1
    /\ ScheduledDelay' = DelayTable[reconnectAttemptsRef + 1]
    /\ ReconnectPending' = ReconnectPending \cup {reconnectTimeoutRef'}
    /\ reconnectTimeoutRef' \notin ReconnectPending
    /\ reconnectAttemptsRef' = reconnectAttemptsRef + 1
    /\ reconnectAttempts' = reconnectAttemptsRef'

\* the effect of a close event handled with attempt >= MAX_RECONNECT_ATTEMPTS, as a step
ExhaustionReported ==
    /\ ~isConnected'
    /\ heartbeatIntervalRef' = -1 /\ heartbeatTimeoutRef' = 0
    /\ Times("onDisconnect")' = 1
    /\ Times("onMaxRetriesExceeded")' = 1
    /\ ~Done("setTimeout")'
    /\ ReconnectPending' = ReconnectPending
    /\ reconnectAttemptsRef' = reconnectAttemptsRef

(***************************************************************************)
(* C1: at most one transport is Connecting or Open at any time, and it is  *)
(* the current one; a connect() that finds the current transport           *)
(* Connecting or Open creates no transport and changes nothing.            *)
(***************************************************************************)
C1_SingleLiveTransport ==
    /\ [](Cardinality(Live) <= 1 /\ (Live # {} => wsRef \in Live))
    /\ [][(lastEvent'.e = "reconnectTimer" /\ isMountedRef /\ wsRef \in Live)
            => /\ out' = <<>>
               /\ UNCHANGED <<wsRef, sockets, reconnectTimeoutRef, heartbeatIntervalRef,
                              heartbeatTimeoutRef, pongTimers, reconnectAttemptsRef,
                              reconnectAttempts, isConnected, isMountedRef>>]_vars

\* a reconnect timer fired while the current transport was Connecting or Open
C1_Witness ==
    /\ lastEvent.e = "reconnectTimer" /\ isMountedRef
    /\ wsRef \in Live /\ out = <<>>

(***************************************************************************)
(* C2: after disconnect() called while mounted, until resetConnection() or *)
(* a mount: no reconnect timer, heartbeat interval or pong timeout is      *)
(* pending, no transport is Connecting or Open, and no step creates a      *)
(* transport or sends a message.                                           *)
(***************************************************************************)
C2_StopStaysClosed ==
    stopped =>
        /\ ReconnectPending = {}
        /\ heartbeatIntervalRef = -1
        /\ PongPending = {}
        /\ Live = {}
        /\ ~Done("new") /\ ~Done("send")

(***************************************************************************)
(* C3: while the consumer is unmounted no transport is created, nothing is *)
(* sent and no callback is invoked, no transport is Connecting or Open and *)
(* no heartbeat timer is pending, whatever event or timer fires.           *)
(***************************************************************************)
C3_UnmountedSilent ==
    ~isMountedRef =>
        /\ \A i \in 1..Len(out) : out[i].k \notin Activity
        /\ Live = {}
        /\ heartbeatIntervalRef = -1
        /\ PongPending = {}

\* a close event was delivered after the unmount
C3_Witness ==
    ~isMountedRef /\ lastEvent.e = "close"

(***************************************************************************)
(* C4: a close event of the current transport handled (mounted) with       *)
(* attempt < 10 stops the heartbeat, sets isConnected false, calls         *)
(* onDisconnect once, arms exactly one reconnect timer with                *)
(* delay(attempt before the increment) and increments attempt by one.      *)
(***************************************************************************)
C4_CloseSchedulesReconnect ==
    [][(/\ lastEvent'.e = "close" /\ lastEvent'.s = wsRef
        /\ isMountedRef
        /\ reconnectAttemptsRef < MAX_RECONNECT_ATTEMPTS)
         => ReconnectScheduled]_vars

\* the close of the current transport was handled at attempt 5: delay 30000, attempt 6
C4_Witness ==
    /\ lastEvent.e = "close" /\ lastEvent.s = wsRef
    /\ reconnectAttemptsRef = 6
    /\ ScheduledDelay = 30000

(***************************************************************************)
(* C5: once onMaxRetriesExceeded has fired, and until an open, a           *)
(* resetConnection() or a mount, it does not fire again, no reconnect      *)
(* timer is pending and no transport is Connecting or Open.                *)
(***************************************************************************)
C5_ExhaustionOnce ==
    exceeded >= 1 =>
        /\ exceeded = 1
        /\ ReconnectPending = {}
        /\ Live = {}

(***************************************************************************)
(* C6: for attempt in 0..9 getReconnectDelay is min(1000 * 2^attempt,      *)
(* 30000): it follows the table 1000, 2000, 4000, 8000, 16000, 30000, ..., *)
(* is non-decreasing, never above 30000 and is 30000 wherever the uncapped *)
(* value exceeds 30000; every reconnect scheduled uses that value.         *)
(***************************************************************************)
C6_BackoffDelay ==
    /\ \A a \in 0..(MAX_RECONNECT_ATTEMPTS - 1) :
         LET d == getReconnectDelay([Cur EXCEPT !.reconnectAttemptsRef = a])
             dnext == getReconnectDelay([Cur EXCEPT !.reconnectAttemptsRef = a + 1])
         IN /\ d = DelayTable[a + 1]
            /\ d <= 30000
            /\ (1000 * (2 ^ a) <= 30000 => d = 1000 * (2 ^ a))
            /\ (1000 * (2 ^ a) > 30000 => d = 30000)
            /\ (a < MAX_RECONNECT_ATTEMPTS - 1 => d <= dnext)
    /\ (DoneAbout("setTimeout", "connect")
          => ScheduledDelay = DelayTable[reconnectAttemptsRef])

\* the reconnect after the 10th close was scheduled (attempt 9: 512000 uncapped)
C6_Witness ==
    /\ DoneAbout("setTimeout", "connect")
    /\ reconnectAttemptsRef = MAX_RECONNECT_ATTEMPTS
    /\ ScheduledDelay = 30000

(***************************************************************************)
(* C7: a pong timeout that fires closes the current transport, which was   *)
(* Open; the current transport is Closing for no other reason; and its     *)
(* close event, handled while mounted, takes the ordinary close path:      *)
(* reconnect scheduled with backoff, or exhaustion reported.               *)
(***************************************************************************)
C7_MissedPongForcesClose ==
    /\ [][lastEvent'.e = "pongTimeout"
            => /\ wsRef # 0 /\ sockets[wsRef] = "OPEN"
               /\ wsRef' = wsRef /\ sockets'[wsRef] = "CLOSING"
               /\ Done("close")' /\ \A i \in 1..Len(out') : out'[i].k \notin Callbacks]_vars
    /\ [][(wsRef' # 0 /\ sockets'[wsRef'] = "CLOSING" /\ sockets[wsRef'] # "CLOSING")
            => lastEvent'.e = "pongTimeout"]_vars
    /\ [][(/\ lastEvent'.e = "close" /\ lastEvent'.s = wsRef
           /\ wsRef # 0 /\ sockets[wsRef] = "CLOSING"
           /\ isMountedRef)
            => IF reconnectAttemptsRef < MAX_RECONNECT_ATTEMPTS
               THEN ReconnectScheduled
               ELSE ExhaustionReported]_vars

\* a pong timeout fired and left the current transport Closing
C7_Witness ==
    /\ lastEvent.e = "pongTimeout"
    /\ wsRef # 0 /\ sockets[wsRef] = "CLOSING"

(***************************************************************************)
(* C8: onMessage is called exactly once for each message that is neither a *)
(* pong nor unparseable, in the step that delivers it and with that        *)
(* message, and never for a pong; after a pong is handled no pong timeout  *)
(* is pending.                                                             *)
(***************************************************************************)
C8_PongIntercepted ==
    /\ \A i \in 1..Len(out) :
         out[i].k = "onMessage"
            => /\ lastEvent.e = "message"
               /\ out[i].m = lastEvent.d
               /\ out[i].m \notin {"pong", "malformed"}
    /\ (lastEvent.e = "message" /\ isMountedRef)
          => /\ Times("onMessage") =
                  IF lastEvent.d \in {"pong", "malformed"} THEN 0 ELSE 1
             /\ (lastEvent.d = "pong" => heartbeatTimeoutRef = 0 /\ PongPending = {})

\* a pong was handled while a pong timeout was pending
C8_Witness ==
    /\ lastEvent.e = "message" /\ lastEvent.d = "pong"
    /\ \E i \in 1..Len(out) : out[i].k = "clearTimeout" /\ out[i].m = "pong" /\ out[i].n = 1

(***************************************************************************)
(* C9: at most one pong timeout is pending at any time, it is the one the  *)
(* hook holds, and a step that sends a ping leaves exactly its own.        *)
(***************************************************************************)
C9_OnePingOutstanding ==
    /\ Cardinality(PongPending) <= 1
    /\ PongPending \subseteq {heartbeatTimeoutRef}
    /\ (DoneAbout("send", "ping") => Cardinality(PongPending) = 1)

\* a ping was sent by the heartbeat interval
C9_Witness ==
    /\ lastEvent.e = "heartbeatInterval"
    /\ DoneAbout("send", "ping")
    /\ Cardinality(PongPending) = 1

(***************************************************************************)
(* C10: after the open event of the current transport is handled           *)
(* (mounted), attempt is 0, the heartbeat interval is freshly armed with   *)
(* no pong timeout pending, isConnected is true and onConnect was called;  *)
(* from then until a close event is handled attempt stays 0, and that      *)
(* close event schedules the reconnect with delay(0).                      *)
(***************************************************************************)
C10_OpenResetsBackoff ==
    /\ []((lastEvent.e = "open" /\ lastEvent.s = wsRef /\ isMountedRef)
            => /\ reconnectAttemptsRef = 0 /\ reconnectAttempts = 0
               /\ heartbeatIntervalRef = IntervalUnits
               /\ heartbeatTimeoutRef = 0 /\ PongPending = {}
               /\ isConnected
               /\ Times("onConnect") = 1)
    /\ [](opened => reconnectAttemptsRef = 0)
    /\ [][(lastEvent'.e = "close" /\ opened /\ isMountedRef)
            => ScheduledDelay' = DelayTable[1]]_vars

\* an open event was handled after an earlier close had scheduled a reconnect
C10_Witness ==
    /\ lastEvent.e = "open" /\ lastEvent.s = wsRef /\ isMountedRef
    /\ isConnected
    /\ ReconnectPending # {}

(***************************************************************************)
(* C11: right after resetConnection() in a mounted state the system is     *)
(* where stop(); attempt := 0; start() leaves it: attempt is 0 (ref and    *)
(* exposed), no reconnect timer and no heartbeat timer is pending, exactly *)
(* one transport was created, it is the held one and is Connecting, and    *)
(* every earlier transport is Closing or Closed.                           *)
(***************************************************************************)
C11_ResetRestarts ==
    lastEvent.e = "resetConnection" =>
        /\ reconnectAttemptsRef = 0 /\ reconnectAttempts = 0
        /\ ReconnectPending = {} /\ reconnectTimeoutRef = 0
        /\ heartbeatIntervalRef = -1 /\ heartbeatTimeoutRef = 0 /\ PongPending = {}
        /\ Times("new") = 1
        /\ wsRef # 0 /\ sockets[wsRef] = "CONNECTING"
        /\ Live = {wsRef}

\* what a transport-error step leaves alone besides the status flag
ErrorFrame ==
    /\ reconnectAttemptsRef' = reconnectAttemptsRef
    /\ reconnectAttempts' = reconnectAttempts
    /\ heartbeatIntervalRef' = heartbeatIntervalRef
    /\ heartbeatTimeoutRef' = heartbeatTimeoutRef
    /\ pongTimers' = pongTimers
    /\ reconnectTimeoutRef' = reconnectTimeoutRef
    /\ reconnectTimers' = reconnectTimers
    /\ wsRef' = wsRef
    /\ \A i \in 1..Len(out') : out'[i].k = "onError"
    /\ isMountedRef => Times("onError")' = 1

(***************************************************************************)
(* C12 as stated: a transport-error step only notifies onError; the        *)
(* status flag, the attempt counter, the heartbeat timers and the          *)
(* reconnect timer are the same before and after it.                       *)
(***************************************************************************)
C12_ErrorOnlyNotifies ==
    [][lastEvent'.e = "error" => ErrorFrame /\ isConnected' = isConnected]_vars

(***************************************************************************)
(* C12 amended: a transport-error step handled while mounted notifies      *)
(* onError once and sets the status flag to false; the attempt counter,    *)
(* the heartbeat timers and the reconnect timer are the same before and    *)
(* after it.  Unmounted, it changes nothing and notifies nobody.           *)
(***************************************************************************)
C12_ErrorClearsFlagOnly ==
    [][lastEvent'.e = "error" =>
          /\ ErrorFrame
          /\ isConnected' = IF isMountedRef THEN FALSE ELSE isConnected]_vars

\* an error on the Open transport was handled: flag down, heartbeat still armed
C12_Witness ==
    /\ lastEvent.e = "error" /\ lastEvent.s = wsRef
    /\ Done("onError")
    /\ ~isConnected
    /\ heartbeatIntervalRef # -1
    /\ reconnectTimeoutRef = 0

(***************************************************************************)
(* C13: a message whose payload does not parse is dropped: the step calls  *)
(* no callback (onMessage in particular), sends nothing, and leaves the    *)
(* status flag, the attempt counter, the held transport, the reconnect     *)
(* timers and the heartbeat timers (the pong timeout in particular)        *)
(* exactly as they were.                                                   *)
(***************************************************************************)
C13_MalformedDropped ==
    [][(lastEvent'.e = "message" /\ lastEvent'.d = "malformed") =>
          /\ out' = <<>>
          /\ isConnected' = isConnected
          /\ reconnectAttemptsRef' = reconnectAttemptsRef
          /\ reconnectAttempts' = reconnectAttempts
          /\ wsRef' = wsRef /\ sockets' = sockets
          /\ reconnectTimeoutRef' = reconnectTimeoutRef
          /\ reconnectTimers' = reconnectTimers
          /\ heartbeatIntervalRef' = heartbeatIntervalRef
          /\ heartbeatTimeoutRef' = heartbeatTimeoutRef
          /\ pongTimers' = pongTimers]_vars

\* a malformed message arrived while a pong was awaited: the timeout is still armed
C13_Witness ==
    /\ lastEvent.e = "message" /\ lastEvent.d = "malformed" /\ lastEvent.s = wsRef
    /\ isMountedRef /\ isConnected
    /\ heartbeatTimeoutRef # 0 /\ pongTimers[heartbeatTimeoutRef] > 0

\* a connection was lost with retry budget left: a close event was handled and
\* scheduled a reconnect, or a pong was missed while attempt < MAX_RECONNECT_ATTEMPTS
Lost ==
    /\ isMountedRef
    /\ \/ lastEvent.e = "close" /\ DoneAbout("setTimeout", "connect")
       \/ lastEvent.e = "pongTimeout" /\ reconnectAttemptsRef < MAX_RECONNECT_ATTEMPTS

\* the connection is Open: held transport open, status flag up, heartbeat running
OpenAgain ==
    /\ wsRef # 0 /\ sockets[wsRef] = "OPEN"
    /\ isConnected
    /\ heartbeatIntervalRef # -1

(***************************************************************************)
(* C14: once the consumer stays mounted, calls nothing and connection      *)
(* attempts succeed, every close event or missed pong handled with         *)
(* attempt < MAX_RECONNECT_ATTEMPTS is eventually followed by a state      *)
(* where the connection is Open again: held transport open, isConnected    *)
(* true, heartbeat interval armed.                                         *)
(***************************************************************************)
C14_EventuallyOpenAgain == (settled /\ Lost) ~> OpenAgain

\* the series held for meter m ([] when the table has no key m)
SeriesOf(m) == IF m \in DOMAIN timeseriesData THEN timeseriesData[m] ELSE <<>>

\* message data is a full_update that carries a point for meter m
CarriesPoint(data, m) ==
    /\ data.type = "full_update"
    /\ Has(data, "timeseries_point")
    /\ m \in DOMAIN data.timeseries_point

(***************************************************************************)
(* C15: in every state every meter's series has strictly increasing        *)
(* timestamps, whatever full_update and initial_timeseries messages were   *)
(* handled (points older than stored ones included).                       *)
(***************************************************************************)
C15_StrictlyIncreasing ==
    \A m \in DOMAIN timeseriesData :
        \A i \in 1..(Len(timeseriesData[m]) - 1) :
            timeseriesData[m][i].timestamp < timeseriesData[m][i + 1].timestamp

(***************************************************************************)
(* C16: in every state every meter's series holds at most                  *)
(* MAX_TIMESERIES_POINTS points, also after an initial_timeseries whose    *)
(* data is longer than that.                                               *)
(***************************************************************************)
C16_SeriesBounded ==
    \A m \in DOMAIN timeseriesData : Len(timeseriesData[m]) <= MAX_TIMESERIES_POINTS

(***************************************************************************)
(* C17: a full_update whose point for a meter is newer than the last       *)
(* stored one leaves that meter's series as the old series followed by the *)
(* point, cut to its MAX_TIMESERIES_POINTS most recent elements in arrival *)
(* order; its length is min(old length + 1, MAX_TIMESERIES_POINTS).  From  *)
(* the empty series, n such updates therefore give min(n, 450) points, the *)
(* most recent ones, oldest first.                                         *)
(***************************************************************************)
C17_AppendKeepsNewest ==
    [][\A m \in Meters :
          (CarriesPoint(lastMessage', m)
             /\ lastMessage'.timeseries_point[m].timestamp > LastTimestamp(m)) =>
          LET all == Append(SeriesOf(m), lastMessage'.timeseries_point[m])
              new == timeseriesData'[m]
              k   == Min(Len(all), MAX_TIMESERIES_POINTS)
          IN /\ Len(new) = k
             /\ \A i \in 1..k : new[i] = all[Len(all) - k + i]]_vars

\* a newer point arrived at a full series: the oldest point left, the new one is last
C17_Witness ==
    /\ CarriesPoint(lastMessage, "m1")
    /\ Len(SeriesOf("m1")) = MAX_TIMESERIES_POINTS
    /\ SeriesOf("m1")[1].timestamp = 2
    /\ SeriesOf("m1")[MAX_TIMESERIES_POINTS] = lastMessage.timeseries_point["m1"]
    /\ lastMessage.timeseries_point["m1"].timestamp = MAX_TIMESERIES_POINTS + 1

(***************************************************************************)
(* C18: a full_update whose point for a meter has the timestamp of the     *)
(* last stored point of that meter leaves the meter's series exactly as it *)
(* was; and appending any point twice gives the series that appending it   *)
(* once gives.                                                             *)
(***************************************************************************)
C18_SameTimestampDropped ==
    [][\A m \in Meters :
          /\ (CarriesPoint(lastMessage', m)
                /\ SeriesOf(m) # <<>>
                /\ lastMessage'.timeseries_point[m].timestamp = LastTimestamp(m)) =>
             (m \in DOMAIN timeseriesData' /\ timeseriesData'[m] = SeriesOf(m))
          /\ \A p \in PointChoices(m) :
                appendPoint(appendPoint(SeriesOf(m), p), p) = appendPoint(SeriesOf(m), p)]_vars

\* a point with the last timestamp and another voltage arrived: the stored point stayed
C18_Witness ==
    /\ CarriesPoint(lastMessage, "m1")
    /\ SeriesOf("m1") # <<>>
    /\ lastMessage.timeseries_point["m1"].timestamp = LastTimestamp("m1")
    /\ lastMessage.timeseries_point["m1"] # SeriesOf("m1")[Len(SeriesOf("m1"))]

(***************************************************************************)
(* C19: a full_update with a realtime batch overwrites the snapshot of     *)
(* exactly the meters in the batch, each by the batch's snapshot as a      *)
(* whole, and leaves every other meter's snapshot as it was; a full_update *)
(* without a realtime batch leaves the snapshot table as it was.           *)
(***************************************************************************)
C19_RealtimeOverwrites ==
    [][lastMessage'.type = "full_update" =>
          IF Has(lastMessage', "realtime")
          THEN /\ DOMAIN realtimeData' = DOMAIN realtimeData \cup DOMAIN lastMessage'.realtime
               /\ \A m \in DOMAIN lastMessage'.realtime :
                      realtimeData'[m] = lastMessage'.realtime[m]
               /\ \A m \in DOMAIN realtimeData \ DOMAIN lastMessage'.realtime :
                      realtimeData'[m] = realtimeData[m]
          ELSE realtimeData' = realtimeData]_vars

\* a batch for m1 alone arrived while m2 had a snapshot: m1 holds the batch's, m2 its own
C19_Witness ==
    /\ lastMessage.type = "full_update" /\ Has(lastMessage, "realtime")
    /\ DOMAIN lastMessage.realtime = {"m1"}
    /\ DOMAIN realtimeData = Meters
    /\ realtimeData["m1"] = lastMessage.realtime["m1"]
    /\ realtimeData["m1"] # realtimeData["m2"]

(***************************************************************************)
(* C20: an initial_timeseries for a meter (name and data present) makes    *)
(* that meter's series the message's data, and leaves every other meter's  *)
(* series, the snapshot table and the summary rows as they were.           *)
(***************************************************************************)
C20_InitialReplaces ==
    [][(/\ lastMessage'.type = "initial_timeseries"
        /\ Has(lastMessage', "meter_name") /\ lastMessage'.meter_name # ""
        /\ Has(lastMessage', "data")) =>
          /\ DOMAIN timeseriesData' = DOMAIN timeseriesData \cup {lastMessage'.meter_name}
          /\ timeseriesData'[lastMessage'.meter_name] = lastMessage'.data
          /\ \A m \in DOMAIN timeseriesData \ {lastMessage'.meter_name} :
                 timeseriesData'[m] = timeseriesData[m]
          /\ realtimeData' = realtimeData
          /\ readings' = readings]_vars

\* m1's history arrived while m2 had a series and the other tables were filled
C20_Witness ==
    /\ lastMessage.type = "initial_timeseries" /\ Has(lastMessage, "data")
    /\ lastMessage.meter_name = "m1"
    /\ timeseriesData["m1"] = lastMessage.data
    /\ Len(timeseriesData["m1"]) = 2
    /\ "m2" \in DOMAIN timeseriesData /\ timeseriesData["m2"] # <<>>
    /\ DOMAIN realtimeData # {}

(***************************************************************************)
(* C21: a full_update with a summary batch makes the summary rows exactly  *)
(* that batch (no earlier row survives); a full_update without one leaves  *)
(* the summary rows as they were.                                          *)
(***************************************************************************)
C21_SummaryReplaces ==
    [][lastMessage'.type = "full_update" =>
          readings' = IF Has(lastMessage', "summary") THEN lastMessage'.summary
                      ELSE readings]_vars

\* a one-row batch arrived after other messages: the rows are that batch
C21_Witness ==
    /\ lastMessage.type = "full_update" /\ Has(lastMessage, "summary")
    /\ Len(lastMessage.summary) = 1
    /\ readings = lastMessage.summary
    /\ delivered >= 2

(***************************************************************************)
(* C22: a full_update with none of summary, realtime and timeseries_point, *)
(* and a message of a kind the reducer does not know, are handled without  *)
(* an error and leave the summary rows, the snapshot table and every       *)
(* series as they were.                                                    *)
(***************************************************************************)
C22_EmptyOrUnknownNoOp ==
    [][(\/ lastMessage'.type \notin {"full_update", "initial_timeseries"}
        \/ /\ lastMessage'.type = "full_update"
           /\ DOMAIN lastMessage' \cap {"summary", "realtime", "timeseries_point"} = {}) =>
          /\ readings' = readings
          /\ realtimeData' = realtimeData
          /\ timeseriesData' = timeseriesData
          /\ delivered' = delivered + 1]_vars

\* an empty full_update was handled while all three tables held data
C22_Witness ==
    /\ lastMessage = [type |-> "full_update"]
    /\ readings # <<>>
    /\ DOMAIN realtimeData # {}
    /\ DOMAIN timeseriesData # {}

(***************************************************************************)
(* C23: the summary rows, the snapshot table and the series change only in *)
(* a step in which the hook hands an inbound application message to the    *)
(* Dashboard; open, close and error events, timer callbacks, send(),       *)
(* disconnect() and resetConnection() leave all three as they were.        *)
(***************************************************************************)
C23_TablesChangeOnMessagesOnly ==
    [][(\/ readings' # readings
        \/ realtimeData' # realtimeData
        \/ timeseriesData' # timeseriesData) =>
          /\ lastEvent'.e = "message"
          /\ \E i \in 1..Len(out') :
                 out'[i].k = "onMessage" /\ out'[i].m = lastMessage'.type
          /\ delivered' = delivered + 1]_vars

\* the second transport has just opened, the first is gone, and the tables
\* still hold what arrived on the first
C23_Witness ==
    /\ lastEvent.e = "open" /\ lastEvent.s = 2 /\ wsRef = 2 /\ sockets[1] = "NONE"
    /\ isConnected
    /\ delivered >= 1
    /\ readings # <<>>
    /\ DOMAIN realtimeData # {}
    /\ DOMAIN timeseriesData # {}

(***************************************************************************)
(* C24: whenever the consumer is mounted and the held transport is Open    *)
(* (its open event has been handled), the heartbeat interval is armed and  *)
(* isConnected is true.                                                    *)
(***************************************************************************)
C24_OpenMeansConnected ==
    (isMountedRef /\ wsRef # 0 /\ sockets[wsRef] = "OPEN") =>
        /\ heartbeatIntervalRef # -1
        /\ isConnected

(***************************************************************************)
(* C25: an open, message, error or close event of a transport that is not  *)
(* the held one (it was replaced or dropped by resetConnection(),          *)
(* disconnect() or an unmount) leaves isConnected, the heartbeat timers,   *)
(* the attempt counter and the reconnect timers as they were and calls     *)
(* none of onDisconnect, onError and onMaxRetriesExceeded.                 *)
(***************************************************************************)
C25_StaleEventsIgnored ==
    [][(lastEvent'.e \in {"open", "message", "error", "close"} /\ lastEvent'.s # wsRef) =>
          /\ isConnected' = isConnected
          /\ heartbeatIntervalRef' = heartbeatIntervalRef
          /\ heartbeatTimeoutRef' = heartbeatTimeoutRef
          /\ pongTimers' = pongTimers
          /\ reconnectAttemptsRef' = reconnectAttemptsRef
          /\ reconnectAttempts' = reconnectAttempts
          /\ reconnectTimeoutRef' = reconnectTimeoutRef
          /\ reconnectTimers' = reconnectTimers
          /\ \A i \in 1..Len(out') :
                 out'[i].k \notin {"onDisconnect", "onError", "onMaxRetriesExceeded"}]_vars

(***************************************************************************)
(* C26: at most one reconnect timer is pending, and a pending one is the   *)
(* one reconnectTimeoutRef holds.                                          *)
(***************************************************************************)
C26_OneHeldReconnectTimer ==
    /\ Cardinality(ReconnectPending) <= 1
    /\ ReconnectPending \subseteq {reconnectTimeoutRef}

(***************************************************************************)
(* C27: in every state 0 <= attempt <= MAX_RECONNECT_ATTEMPTS, and the     *)
(* reconnectAttempts value given to the consumer equals the counter in     *)
(* reconnectAttemptsRef.                                                   *)
(***************************************************************************)
C27_AttemptInRange ==
    /\ reconnectAttemptsRef \in 0..MAX_RECONNECT_ATTEMPTS
    /\ reconnectAttempts = reconnectAttemptsRef

\* the counter has reached its maximum and one more close event was handled
C27_Witness ==
    /\ reconnectAttemptsRef = MAX_RECONNECT_ATTEMPTS
    /\ reconnectAttempts = MAX_RECONNECT_ATTEMPTS
    /\ lastEvent.e = "close" /\ Done("onMaxRetriesExceeded")

(***************************************************************************)
(* C28: every outbound write (the heartbeat's ping, the messages the       *)
(* consumer passes to send()) goes to the transport held in wsRef while    *)
(* it is Open, in the step of the interval callback or of the send() call  *)
(* that asked for it; a send() call in any other state writes nothing and  *)
(* changes nothing, so nothing is kept to be written later.                *)
(***************************************************************************)
C28_WritesOnOpenCurrentOnly ==
    [][/\ \A i \in 1..Len(out') :
            out'[i].k = "send" =>
                /\ wsRef # 0 /\ sockets[wsRef] = "OPEN" /\ out'[i].s = wsRef
                /\ \/ lastEvent'.e = "heartbeatInterval" /\ out'[i].m = "ping"
                   \/ lastEvent'.e = "send" /\ out'[i].m = lastEvent'.d
       /\ (lastEvent'.e = "send" /\ ~(wsRef # 0 /\ sockets[wsRef] = "OPEN")) =>
              /\ out' = <<>>
              /\ UNCHANGED <<wsRef, sockets, reconnectTimeoutRef, reconnectTimers,
                             heartbeatIntervalRef, heartbeatTimeoutRef, pongTimers,
                             reconnectAttemptsRef, reconnectAttempts, isConnected,
                             isMountedRef>>]_vars

\* send() was called while the held transport was still Connecting and wrote
\* nothing
C28_Witness ==
    /\ lastEvent.e = "send" /\ out = <<>>
    /\ wsRef # 0 /\ sockets[wsRef] = "CONNECTING"

(***************************************************************************)
(* C29: a message that is not a pong (full_update, initial_timeseries, an  *)
(* unknown kind, an unparseable frame) leaves the pending pong timeout as  *)
(* it was: the same timer is held and it has the same time left.  A        *)
(* timeout that is due after such a message therefore still fires, and     *)
(* firing closes the held transport.                                       *)
(***************************************************************************)
C29_OnlyPongClearsTimeout ==
    /\ [][(lastEvent'.e = "message" /\ lastEvent'.d # "pong") =>
              /\ heartbeatTimeoutRef' = heartbeatTimeoutRef
              /\ pongTimers' = pongTimers
              /\ \A i \in 1..Len(out') : out'[i].k # "clearTimeout"]_vars
    /\ [][(/\ lastEvent.e = "message" /\ lastEvent.d # "pong"
           /\ lastEvent'.e = "pongTimeout" /\ lastEvent'.s = heartbeatTimeoutRef) =>
              /\ \E i \in 1..Len(out') : out'[i].k = "close" /\ out'[i].s = wsRef
              /\ sockets'[wsRef] = "CLOSING"]_vars

\* a data message was handed to the consumer on the held transport while the
\* pong timeout was pending, and the timeout is now due
C29_Witness ==
    /\ lastEvent.e = "message" /\ lastEvent.d = "full_update" /\ lastEvent.s = wsRef
    /\ DoneAbout("onMessage", "full_update")
    /\ heartbeatTimeoutRef # 0 /\ pongTimers[heartbeatTimeoutRef] = 0

(***************************************************************************)
(* C30: once logout() has completed, and until login() is called again,    *)
(* the storage holds no access token and no refresh token, whatever the    *)
(* api client still has in flight (a login() that was waiting for its      *)
(* reply when logout() ran is left aside: its reply stores a pair).        *)
(***************************************************************************)
C30_NoTokensAfterLogout ==
    loggedOut => (accessToken = 0 /\ refreshToken = 0)

TypeOK ==
    /\ wsRef \in 0..MaxSockets
    /\ reconnectAttemptsRef \in 0..MAX_RECONNECT_ATTEMPTS
    /\ heartbeatIntervalRef \in -1..IntervalUnits
====
